---- MODULE Spec2Model ----
(***************************************************************************)
(* celestial-tts: the inference batcher (model/local/batcher.py), the LRU *)
(* model cache (model/local/model_cache.py) and the auth-token store       *)
(* (database/model/auth_token.py, database/controller/auth_token.py).      *)
(*                                                                         *)
(* The three subsystems share no state.  Each has its own next-state       *)
(* relation and specification (SpecBatcher, SpecCache, SpecToken); a       *)
(* specification leaves the variables of the other two at their initial    *)
(* values.                                                                 *)
(***************************************************************************)
EXTENDS Integers, Sequences, FiniteSets, TLC

\* ------------------------------------------------------------------ bounds
\* Number of submit() calls (one asyncio task each) of a run.
NumReq == 3

Req == 1..NumReq
\* The number of texts one submit() carries.
TextCounts == {1, 2}
\* The batch keys callers use.
Keys == {"k1", "k2"}

\* =================================================================
\* Inference batcher (src/celestial_tts/model/local/batcher.py)
\*
\* asyncio runs a task without interruption from one suspension point to
\* the next.  The suspension points of submit() are `await
\* asyncio.to_thread(...)` (line 110) and `await future` on a future that is
\* not done (line 79); `async with self._lock` does not suspend when the
\* lock is free, and no task suspends while it holds the lock.  Each action
\* below is one such uninterrupted run of one task.
\* =================================================================
VARIABLES
    queue,              \* self._queue: buckets in dict insertion order
    lock,               \* self._lock is held
    inference_running,  \* self._inference_running
    pc,                 \* per submit() call: "new", "lead", "wait", "done"
    rkey,               \* batch_key of the call
    rcount,             \* _InferenceRequest.text_count
    future,             \* _InferenceRequest.future
    pending,            \* _run_batch_loop's local `pending`, buckets not yet executed
    cur,                \* the invocation the task awaits in _execute_batch (0: none)
    calls,              \* history: every invocation of the blocking function
    writes,             \* history: times a future left the pending state
    burst               \* history: no submit() was made after an invocation ended

bvars == <<queue, lock, inference_running, pc, rkey, rcount, future, pending,
           cur, calls, writes, burst>>

VARIABLES
    max_loaded_models,  \* LocalModelCache.max_loaded_models
    cache,              \* LocalModelCache._cache, least recently used first
    nextHandle,         \* the next model instance a loader or put caller makes
    loadRun,            \* history: the ids inserted since the cache was last new
                        \* or cleared, while nothing else touched it
    pure,               \* history: nothing but such insertions happened since
    last,               \* history: the last cache operation and its outcome
    recency             \* history: the resident ids in the order of their last
                        \* successful get or put, the oldest first

cvars == <<max_loaded_models, cache, nextHandle, loadRun, pure, last, recency>>

VARIABLES
    rows,               \* the auth_token table: id -> row
    now,                \* datetime.utcnow()
    nextId,             \* the next uuid7()
    issued,             \* history: what create_auth_token returned, per id
    revokedIds,         \* history: ids revoke_auth_token returned True for
    vs,                 \* the verify_token call in progress, between its
                        \* select and its commit
    vres                \* history: what the last verify_token, revoke_auth_token
                        \* or delete_auth_token call returned

tvars == <<rows, now, nextId, issued, revokedIds, vs, vres>>

VARIABLES
    flow                \* per request in flight: its entry point, where it
                        \* stands, and what was done for it so far

evars == <<flow>>

VARIABLES
    loading,            \* per _get_or_load_model call: idle, or awaiting the
                        \* executor with the id it loads and its loader call
    loaderCalls         \* history: the loader calls made so far

lvars == <<loading, loaderCalls>>

vars == <<bvars, cvars, tvars, evars, lvars>>

\* what an action of one subsystem leaves alone
BatcherOnly == UNCHANGED <<cvars, tvars, evars, lvars>>
CacheOnly == UNCHANGED <<bvars, tvars, evars, lvars>>
TokenOnly == UNCHANGED <<bvars, cvars, evars, lvars>>
EntryOnly == UNCHANGED <<bvars, cvars, tvars, lvars>>
LoadOnly == UNCHANGED <<bvars, tvars, evars>>

\* ---- values
Pending == [state |-> "pending", val |-> <<>>]
Cancelled == [state |-> "cancelled", val |-> <<>>]
Result(wavs, sr) == [state |-> "result", val |-> <<wavs, sr>>]
Exception(exc) == [state |-> "exception", val |-> exc]

\* asyncio.CancelledError thrown into task r
CancelledError(r) == <<"CancelledError", r>>
\* the exception the blocking function raises in invocation c
RunBatchError(c) == <<"RunBatchError", c>>

\* _InferenceRequest.texts: the i-th text of call r
Texts(r) == [i \in 1..rcount[r] |-> <<r, i>>]

\* mutant: a future is taken for not done whatever its state
NotDoneAlways(f) == TRUE

\* `not req.future.done()` (lines 113, 117)
NotDone(f) == f.state = "pending"

\* mutant: every caller takes the batcher for idle
IsIdleAlways(running) == TRUE

\* `if not self._inference_running` (line 72)
IsIdle(running) == ~running

\* mutant: the drain loop takes the queue for empty without looking
QueueEmptyAlways(q) == TRUE

\* `if not self._queue` (line 86)
QueueEmpty(q) == q = <<>>

\* mutant: the request is put in a bucket of its own
EnqueueAlone(q, k, r) == Append(q, [key |-> k, reqs |-> <<r>>])

\* mutant: the request joins the oldest bucket, whatever its key
EnqueueFirstBucket(q, k, r) ==
    IF q = <<>>
    THEN Append(q, [key |-> k, reqs |-> <<r>>])
    ELSE [q EXCEPT ![1].reqs = Append(@, r)]

\* `self._queue.setdefault(batch_key, []).append(request)` (line 71)
Enqueue(q, k, r) ==
    IF \E i \in 1..Len(q) : q[i].key = k
    THEN [i \in 1..Len(q) |->
            IF q[i].key = k THEN [q[i] EXCEPT !.reqs = Append(@, r)] ELSE q[i]]
    ELSE Append(q, [key |-> k, reqs |-> <<r>>])

RECURSIVE CombinedTexts(_)
\* combined_texts after the loop of lines 100-103
CombinedTexts(reqs) ==
    IF reqs = <<>> THEN <<>>
    ELSE CombinedTexts(SubSeq(reqs, 1, Len(reqs) - 1)) \o Texts(reqs[Len(reqs)])

\* mutant: every slice starts at offset 0
SlicesFromZero(reqs) == [i \in 1..Len(reqs) |-> <<0, rcount[reqs[i]]>>]

\* `slices` after the loop of lines 100-103: (start, start + text_count)
Slices(reqs) ==
    [i \in 1..Len(reqs) |->
        LET start == Len(CombinedTexts(SubSeq(reqs, 1, i - 1)))
        IN <<start, start + rcount[reqs[i]]>>]

\* Python's s[start:end] on a list (0-based, end exclusive, clipped)
PySlice(s, start, end) ==
    SubSeq(s, start + 1, IF end < Len(s) THEN end ELSE Len(s))

\* The blocking function: one wav per text, in order, and the sample rate.
RunBatchWavs(texts) == [j \in 1..Len(texts) |-> <<"wav", texts[j]>>]
SampleRate == "sr"

IndexOf(reqs, r) == CHOOSE i \in 1..Len(reqs) : reqs[i] = r
InSeq(reqs, r) == \E i \in 1..Len(reqs) : reqs[i] = r

\* lines 112-114: every request whose future is not done gets its slice
SetResults(fut, reqs) ==
    LET wavs == RunBatchWavs(CombinedTexts(reqs))
        sl == Slices(reqs)
    IN [r \in Req |->
          IF InSeq(reqs, r) /\ NotDone(fut[r])
          THEN Result(PySlice(wavs, sl[IndexOf(reqs, r)][1], sl[IndexOf(reqs, r)][2]),
                      SampleRate)
          ELSE fut[r]]

\* mutant: the handler fails every future that is not done, of any bucket
SetExceptionsAll(fut, reqs, exc) ==
    [r \in Req |-> IF NotDone(fut[r]) THEN Exception(exc) ELSE fut[r]]

\* lines 115-118: every request whose future is not done gets the exception
SetExceptions(fut, reqs, exc) ==
    [r \in Req |->
        IF InSeq(reqs, r) /\ NotDone(fut[r]) THEN Exception(exc) ELSE fut[r]]

\* history: the futures SetResults / SetExceptions wrote
Written(wr, fut, reqs) ==
    [r \in Req |-> IF InSeq(reqs, r) /\ NotDone(fut[r]) THEN wr[r] + 1 ELSE wr[r]]

\* mutant: the drain loop keeps the lock while it executes a batch
LockKeptWhileExecuting == TRUE

\* self._lock while _execute_batch is awaited: the `async with self._lock`
\* block of lines 84-90 has ended before the loop of lines 92-93
LockWhileExecuting == FALSE

\* mutant: the swap leaves the captured buckets in the queue
SwapKeeps(q) == q

\* `self._queue = {}` (line 90)
AfterSwap(q) == <<>>

\* mutant: a failed batch ends the pass
DropRemaining(pend) == <<>>

\* the buckets of `pending` still to execute after a batch failed: the
\* handler of lines 115-118 does not re-raise, so the loop of lines 92-93
\* goes on with all of them
RemainingAfterFailure(pend) == pend

\* a new invocation record (history)
NewCall(bucket, r) ==
    [key |-> bucket.key, reqs |-> bucket.reqs, leader |-> r,
     state |-> "running"]

\* The leader task r runs on from the end of one _execute_batch to its next
\* suspension point: the next bucket of `pending` (lines 92-93, 98-110), or
\* the next pass of the loop (lines 84-90), or the end of the loop and
\* `return await future` (lines 86-88, 79).  q, run, pend, cs, fut, wr are
\* the values the step has produced so far.
Advance(r, q, run, pend, cs, fut, wr) ==
    /\ future' = fut
    /\ writes' = wr
    /\ IF pend # <<>>
       THEN /\ calls' = Append(cs, NewCall(Head(pend), r))
            /\ cur' = [cur EXCEPT ![r] = Len(cs) + 1]
            /\ pending' = [pending EXCEPT ![r] = Tail(pend)]
            /\ queue' = q
            /\ inference_running' = run
            /\ pc' = [pc EXCEPT ![r] = "lead"]
            /\ lock' = LockWhileExecuting
       ELSE /\ ~lock
            /\ IF QueueEmpty(q)
               THEN /\ inference_running' = FALSE
                    /\ lock' = FALSE
                    /\ calls' = cs
                    /\ cur' = [cur EXCEPT ![r] = 0]
                    /\ pending' = [pending EXCEPT ![r] = <<>>]
                    /\ queue' = q
                    /\ pc' = [pc EXCEPT ![r] = IF NotDone(fut[r]) THEN "wait" ELSE "done"]
               ELSE /\ calls' = Append(cs, NewCall(Head(q), r))
                    /\ cur' = [cur EXCEPT ![r] = Len(cs) + 1]
                    /\ pending' = [pending EXCEPT ![r] = Tail(q)]
                    /\ queue' = AfterSwap(q)
                    /\ lock' = LockWhileExecuting
                    /\ inference_running' = run
                    /\ pc' = [pc EXCEPT ![r] = "lead"]

\* history: the submit() calls made so far
Submitted == {r \in Req : pc[r] # "new"}

\* submit(), lines 65-79, up to the task's first suspension point: the
\* critical section of lines 70-74 and, for the leader, the first pass of
\* _run_batch_loop up to `await asyncio.to_thread` (line 110).
\* The calls are numbered in the order they reach line 70.
Submit(r, k, n) ==
    /\ BatcherOnly
    /\ pc[r] = "new"
    /\ \A o \in 1..(r - 1) : pc[o] # "new"
    /\ ~lock
    /\ rkey' = [rkey EXCEPT ![r] = k]
    /\ rcount' = [rcount EXCEPT ![r] = n]
    /\ burst' = (burst /\ \A c \in 1..Len(calls) : calls[c].state = "running")
    /\ IF IsIdle(inference_running)
       THEN Advance(r, Enqueue(queue, k, r), TRUE, <<>>, calls, future, writes)
       ELSE /\ queue' = Enqueue(queue, k, r)
            /\ lock' = FALSE
            /\ pc' = [pc EXCEPT ![r] = "wait"]
            /\ UNCHANGED <<inference_running, calls, cur, pending, future, writes>>

\* history: how invocation c ended for the task that awaited it
SetCallState(cs, c, st) == [cs EXCEPT ![c].state = st]

\* The blocking function of the invocation the leader r awaits returns;
\* the leader resumes at line 110 and runs lines 112-114, then on.
BatchReturns(r) ==
    /\ BatcherOnly
    /\ pc[r] = "lead"
    /\ cur[r] # 0
    /\ calls[cur[r]].state = "running"
    /\ LET reqs == calls[cur[r]].reqs IN
       Advance(r, queue, inference_running, pending[r],
               SetCallState(calls, cur[r], "returned"),
               SetResults(future, reqs), Written(writes, future, reqs))
    /\ UNCHANGED <<rkey, rcount, burst>>

\* The blocking function raises; asyncio.to_thread re-raises it at line 110
\* and the handler of lines 115-118 runs, then the leader runs on.
BatchRaises(r) ==
    /\ BatcherOnly
    /\ pc[r] = "lead"
    /\ cur[r] # 0
    /\ calls[cur[r]].state = "running"
    /\ LET reqs == calls[cur[r]].reqs IN
       Advance(r, queue, inference_running, RemainingAfterFailure(pending[r]),
               SetCallState(calls, cur[r], "raised"),
               SetExceptions(future, reqs, RunBatchError(cur[r])),
               Written(writes, future, reqs))
    /\ UNCHANGED <<rkey, rcount, burst>>

\* The leader's task is cancelled while it awaits asyncio.to_thread (line
\* 110): CancelledError is thrown at the await, `except BaseException`
\* (line 115) catches it, lines 116-118 run and the handler does not
\* re-raise, so the loop goes on.  The worker thread is not interrupted: the
\* invocation runs on with nobody awaiting it (state "orphan").
CancelLeader(r) ==
    /\ BatcherOnly
    /\ pc[r] = "lead"
    /\ cur[r] # 0
    /\ calls[cur[r]].state = "running"
    /\ LET reqs == calls[cur[r]].reqs IN
       Advance(r, queue, inference_running, pending[r],
               SetCallState(calls, cur[r], "orphan"),
               SetExceptions(future, reqs, CancelledError(r)),
               Written(writes, future, reqs))
    /\ UNCHANGED <<rkey, rcount, burst>>

\* A task suspended in `await future` (line 79) is cancelled: Task.cancel()
\* cancels the future the task waits on.
CancelWaiter(r) ==
    /\ BatcherOnly
    /\ pc[r] = "wait"
    /\ future[r].state = "pending"
    /\ future' = [future EXCEPT ![r] = Cancelled]
    /\ writes' = [writes EXCEPT ![r] = @ + 1]
    /\ pc' = [pc EXCEPT ![r] = "done"]
    /\ UNCHANGED <<queue, lock, inference_running, rkey, rcount, pending, cur,
                   calls, burst>>

\* `return await future` (line 79) of a waiting task whose future is done
Return(r) ==
    /\ BatcherOnly
    /\ pc[r] = "wait"
    /\ future[r].state # "pending"
    /\ pc' = [pc EXCEPT ![r] = "done"]
    /\ UNCHANGED <<queue, lock, inference_running, rkey, rcount, future,
                   pending, cur, calls, writes, burst>>

\* InferenceBatcher.__init__ (lines 35-38); the inputs of the submit() calls
InitBatcher ==
    /\ queue = <<>>
    /\ lock = FALSE
    /\ inference_running = FALSE
    /\ pc = [r \in Req |-> "new"]
    /\ rkey = [r \in Req |-> "none"]
    /\ rcount = [r \in Req |-> 0]
    /\ future = [r \in Req |-> Pending]
    /\ pending = [r \in Req |-> <<>>]
    /\ cur = [r \in Req |-> 0]
    /\ calls = <<>>
    /\ writes = [r \in Req |-> 0]
    /\ burst = TRUE

\* the batcher of a run that does not use it
BatcherAtRest ==
    /\ InitBatcher

NextBatcher ==
    \/ \E r \in Req, k \in Keys, n \in TextCounts : Submit(r, k, n)
    \/ \E r \in Req : BatchReturns(r)
    \/ \E r \in Req : BatchRaises(r)
    \/ \E r \in Req : CancelLeader(r)
    \/ \E r \in Req : CancelWaiter(r)
    \/ \E r \in Req : Return(r)

\* The blocking function ends whenever it is invoked: an awaited invocation
\* returns or raises.
BatcherFairness == \A r \in Req : WF_vars(BatchReturns(r) \/ BatchRaises(r))

\* ---------------------------------------------------- batcher: properties
Leaders == {r \in Req : pc[r] = "lead"}
Quiescent == Leaders = {} /\ queue = <<>>
SameKey(S) == \A a, b \in S : rkey[a] = rkey[b]
RECURSIVE SumCounts(_)
SumCounts(reqs) ==
    IF reqs = <<>> THEN 0 ELSE rcount[Head(reqs)] + SumCounts(Tail(reqs))
\* the requests a..b in the order they were submitted
Ascending(a, b) == [i \in 1..(b - a + 1) |-> a + i - 1]
\* what the blocking function makes of the caller's own texts, in order
OwnWavs(r) == [j \in 1..rcount[r] |-> <<"wav", <<r, j>>>>]
HasOwnResult(r) ==
    /\ future[r].state = "result"
    /\ future[r].val = <<OwnWavs(r), SampleRate>>
HasException(r, exc) ==
    /\ future[r].state = "exception"
    /\ future[r].val = exc
\* K >= 2 submit() calls with one key, all made before any invocation ended,
\* and the batcher idle again
BurstDone ==
    /\ burst
    /\ Cardinality(Submitted) >= 2
    /\ SameKey(Submitted)
    /\ Quiescent

C3_EveryRequestResolved ==
    \A r \in Req : (pc[r] \in {"lead", "wait"}) ~> (future[r].state # "pending")

\* C3 witness: a request enqueued by a follower after the leader's swap was
\* executed, and served, by a later pass of the same leader's loop
C3_Witness ==
    \E c \in 2..Len(calls) :
        /\ calls[c].leader = calls[1].leader
        /\ calls[c].state = "returned"
        /\ \E i \in 1..Len(calls[c].reqs) :
             /\ calls[c].reqs[i] # calls[c].leader
             /\ HasOwnResult(calls[c].reqs[i])

\* C4: a future leaves the pending state at most once, and once the
\* invocation of a batch has ended for the leader every request of the batch
\* holds what that batch gave it, or was cancelled by its caller before.
C4_WrittenOnce ==
    /\ \A r \in Req : writes[r] <= 1
    /\ \A r \in Req : (writes[r] = 0) <=> (future[r].state = "pending")
    /\ \A c \in 1..Len(calls) : \A i \in 1..Len(calls[c].reqs) :
         LET r == calls[c].reqs[i] IN
         /\ calls[c].state = "returned" =>
               (HasOwnResult(r) \/ future[r].state = "cancelled")
         /\ calls[c].state = "raised" =>
               (HasException(r, RunBatchError(c)) \/ future[r].state = "cancelled")
         /\ calls[c].state = "orphan" =>
               (HasException(r, CancelledError(calls[c].leader))
                  \/ future[r].state = "cancelled")

\* C4 witness: a batch that returned, one of its requests cancelled before by
\* its caller and left alone, another one given its result
C4_Witness ==
    \E c \in 1..Len(calls) : \E i, j \in 1..Len(calls[c].reqs) :
        /\ calls[c].state = "returned"
        /\ future[calls[c].reqs[i]].state = "cancelled"
        /\ HasOwnResult(calls[c].reqs[j])
        /\ writes[calls[c].reqs[i]] = 1
        /\ writes[calls[c].reqs[j]] = 1

\* C5: at most one task is in the drain loop at any time, and it is there
\* only while the leader flag is set.
C5_OneLeader ==
    /\ Cardinality(Leaders) <= 1
    /\ Leaders # {} => inference_running

\* C5 witness: a second submit() made while a leader drains became a
\* follower
C5_Witness ==
    \E a, b \in Req :
        /\ pc[a] = "lead"
        /\ pc[b] = "wait"
        /\ future[b].state = "pending"

\* C6: when the blocking function raises for a bucket, every request of the
\* bucket that its caller has not cancelled holds that failure; every
\* request of a bucket whose invocation returned, in the same pass or a
\* later one, holds its own result.
C6_FailurePerBucket ==
    \A c \in 1..Len(calls) : \A i \in 1..Len(calls[c].reqs) :
        LET r == calls[c].reqs[i] IN
        /\ (calls[c].state = "raised" /\ future[r].state # "cancelled")
              => HasException(r, RunBatchError(c))
        /\ (calls[c].state = "returned" /\ future[r].state # "cancelled")
              => HasOwnResult(r)

\* C6 witness: two buckets of one pass, the first raised and its two
\* requests hold the failure, the second returned and its request holds its
\* result
C6_Witness ==
    \E c \in 1..(Len(calls) - 1) :
        /\ calls[c].leader = calls[c + 1].leader
        /\ calls[c].key # calls[c + 1].key
        /\ calls[c].state = "raised"
        /\ calls[c + 1].state = "returned"
        /\ \A i \in 1..Len(calls[c].reqs) :
             HasException(calls[c].reqs[i], RunBatchError(c))
        /\ \A i \in 1..Len(calls[c + 1].reqs) : HasOwnResult(calls[c + 1].reqs[i])

\* C7: a caller that abandons its submit() fails no request but its own: no
\* request holds the CancelledError of another caller's task.
C7_AbandonIsLocal ==
    \A r \in Req :
        (future[r].state = "exception" /\ future[r].val[1] = "CancelledError")
            => future[r].val[2] = r

\* C16: every invocation of the blocking function takes the texts of
\* requests of one key only, the key of its bucket; requests submitted with
\* different keys are in different invocations.
C16_OneKeyPerInvocation ==
    /\ \A c \in 1..Len(calls) :
         /\ \A i \in 1..Len(calls[c].reqs) : rkey[calls[c].reqs[i]] = calls[c].key
         /\ \A t \in 1..Len(CombinedTexts(calls[c].reqs)) :
              rkey[CombinedTexts(calls[c].reqs)[t][1]] = calls[c].key
    /\ \A a, b \in Submitted :
         rkey[a] # rkey[b]
            => ~\E c \in 1..Len(calls) : InSeq(calls[c].reqs, a) /\ InSeq(calls[c].reqs, b)

\* C16 witness: two requests with different keys were queued together while
\* a batch ran, and the leader served them in one pass by two invocations
C16_Witness ==
    \E c \in 2..(Len(calls) - 1) :
        /\ calls[c].leader = calls[c + 1].leader
        /\ calls[c - 1].leader = calls[c].leader
        /\ calls[c].key # calls[c + 1].key
        /\ calls[c].state = "returned"
        /\ calls[c + 1].state = "returned"

\* the offset of position i in the combined input of reqs: the number of
\* texts of the requests before it
StartOf(reqs, i) == SumCounts(SubSeq(reqs, 1, i - 1))

\* C17: in an invocation that returned, the request enqueued i-th in the
\* bucket has the offsets [start, start + count), start being the summed
\* counts of the requests enqueued before it, and a request holding a result
\* holds the outputs at exactly those offsets of the combined result, with
\* the sample rate of the invocation.  The bucket is in submission order.
C17_PositionStableSlices ==
    \A c \in 1..Len(calls) :
        LET reqs == calls[c].reqs
            wavs == RunBatchWavs(CombinedTexts(reqs))
        IN /\ \A i \in 1..(Len(reqs) - 1) : reqs[i] < reqs[i + 1]
           /\ \A i \in 1..Len(reqs) :
                /\ Slices(reqs)[i] = <<StartOf(reqs, i), StartOf(reqs, i) + rcount[reqs[i]]>>
                /\ (calls[c].state = "returned" /\ future[reqs[i]].state = "result")
                      => future[reqs[i]].val =
                            <<[k \in 1..rcount[reqs[i]] |-> wavs[StartOf(reqs, i) + k]],
                              SampleRate>>

\* C17 witness: a returned invocation of two requests, the first with two
\* texts, and the second holds the outputs from offset 2 on
C17_Witness ==
    \E c \in 1..Len(calls) :
        /\ calls[c].state = "returned"
        /\ Len(calls[c].reqs) = 2
        /\ rcount[calls[c].reqs[1]] = 2
        /\ future[calls[c].reqs[2]].state = "result"
        /\ StartOf(calls[c].reqs, 2) = 2

\* the leader r's awaited invocation raises in this step
RaisesNow(r) ==
    /\ pc[r] = "lead"
    /\ cur[r] # 0
    /\ calls[cur[r]].state = "running"
    /\ calls'[cur[r]].state = "raised"

\* C28: when the blocking function raises for a bucket, the leader goes on
\* with the next bucket its swap captured, if there is one; with a leader
\* in the loop, the batcher gets idle again, its flag cleared; and a
\* submit() made on an idle batcher after a failure becomes leader and has
\* its request in a running invocation.
C28_FailureDoesNotBlock ==
    /\ [][\A r \in Req :
            (RaisesNow(r) /\ pending[r] # <<>>)
               => /\ Len(calls') = Len(calls) + 1
                  /\ calls'[Len(calls')].reqs = Head(pending[r]).reqs
                  /\ calls'[Len(calls')].state = "running"
                  /\ pending'[r] = Tail(pending[r])]_vars
    /\ [][\A x \in Req :
            (/\ pc[x] = "new" /\ pc'[x] # "new"
             /\ ~inference_running
             /\ \E c \in 1..Len(calls) : calls[c].state = "raised")
               => /\ pc'[x] = "lead"
                  /\ inference_running'
                  /\ calls'[cur'[x]].reqs = <<x>>
                  /\ calls'[cur'[x]].state = "running"]_vars
    /\ \A c \in Req :
         (Len(calls) >= c /\ calls[c].state = "raised")
            ~> (Leaders = {} /\ ~inference_running /\ queue = <<>>)

\* C28 witness: an invocation raised, and a request submitted after that to
\* the idle batcher was served by a new leader
C28_Witness ==
    \E c \in 1..Len(calls) : \E d \in (c + 1)..Len(calls) :
        /\ calls[c].state = "raised"
        /\ calls[d].leader # calls[c].leader
        /\ calls[d].state = "returned"
        /\ HasOwnResult(calls[d].leader)
        /\ ~inference_running

\* an invocation is in flight, awaited by its leader
InFlight == \E r \in Req : pc[r] = "lead" /\ cur[r] # 0 /\ calls[cur[r]].state = "running"

\* C29: the lock is free whenever an invocation of the blocking function is
\* in flight, and the next submit() can then go through its critical
\* section at once.
C29_LockFreeWhileExecuting ==
    InFlight
        => /\ ~lock
           /\ \A r \in Req :
                (pc[r] = "new" /\ \A o \in 1..(r - 1) : pc[o] # "new")
                    => ENABLED (\E k \in Keys, n \in TextCounts : Submit(r, k, n))

\* C29 witness: a request was appended while an invocation was in flight
C29_Witness ==
    /\ InFlight
    /\ queue # <<>>
    /\ \E r \in Req : pc[r] = "wait" /\ future[r].state = "pending"

\* the number of places of the sequence of buckets bs that hold x
RECURSIVE Places(_, _)
Places(bs, x) ==
    IF bs = <<>> THEN 0
    ELSE Cardinality({i \in 1..Len(Head(bs).reqs) : Head(bs).reqs[i] = x})
            + Places(Tail(bs), x)
RECURSIVE PlacesPending(_, _)
PlacesPending(S, x) ==
    IF S = {} THEN 0
    ELSE LET r == CHOOSE y \in S : TRUE
         IN Places(pending[r], x) + PlacesPending(S \ {r}, x)

\* C30: every request submitted is in exactly one place: a bucket of the
\* queue, a bucket a leader captured and has not executed yet, or one
\* invocation; so a request enqueued after a swap is in no batch of that
\* pass, every captured bucket becomes one invocation, and no request is
\* passed to the blocking function twice.
C30_ExactlyOneInvocation ==
    /\ \A x \in Submitted :
         Places(queue, x) + PlacesPending(Req, x) + Places(calls, x) = 1
    /\ \A x \in Submitted : future[x].state \in {"result", "exception"} => Places(calls, x) = 1
    /\ \A x \in Req \ Submitted :
         Places(queue, x) + PlacesPending(Req, x) + Places(calls, x) = 0

\* C30 witness: two requests with one key, the second enqueued after the
\* swap that captured the first, were executed by one leader in two
\* passes
C30_Witness ==
    /\ Len(calls) = 3
    /\ \A c \in 1..3 : calls[c].leader = 1 /\ calls[c].state = "returned"
    /\ calls[2].key = calls[3].key
    /\ calls[2].reqs = <<2>>
    /\ calls[3].reqs = <<3>>

\* C36: the leader flag is cleared only by a step that sees the queue empty
\* with the lock free, and whenever the lock is free a non-empty queue has
\* the leader flag set.
C36_FlagClearedOnEmptyQueue ==
    /\ []((~lock /\ queue # <<>>) => inference_running)
    /\ [][(inference_running /\ ~inference_running')
            => /\ ~lock
               /\ queue = <<>>
               /\ queue' = <<>>
               /\ \E r \in Req : pc[r] = "lead" /\ pc'[r] # "lead"]_vars

\* C36 witness: a leader cleared the flag and finished; a later leader
\* holds the flag while the queue is not empty
C36_Witness ==
    /\ queue # <<>>
    /\ ~lock
    /\ inference_running
    /\ \E a, b \in Req :
         /\ a # b
         /\ pc[a] = "done"
         /\ pc[b] = "lead"
         /\ \E c \in 1..Len(calls) : calls[c].leader = a /\ calls[c].state = "returned"

\* the invocations whose blocking function may still be running: the one a
\* leader awaits, and the ones a cancelled leader stopped awaiting, whose
\* worker thread runs on
Executing == {c \in 1..Len(calls) : calls[c].state \in {"running", "orphan"}}

\* C38: at most one invocation of the blocking function is in flight at
\* any time, also after a caller's cancellation: a new invocation starts
\* only after the one before it has finished.
C38_OneInFlight == Cardinality(Executing) <= 1

\* C39: the submit() of a leader (a call that found the flag clear) goes
\* on to `return await future` only in a step that sees the queue empty
\* and clears the leader flag, also when its own future was resolved by
\* an earlier batch of the loop; a follower's submit() can return as soon
\* as its own future is resolved.
C39_LeaderReturnsAfterDrain ==
    /\ [](\A r \in Req : pc[r] = "lead" => inference_running)
    /\ [](\A r \in Req :
            (pc[r] = "wait" /\ future[r].state # "pending") => ENABLED Return(r))
    /\ [][\A r \in Req :
            (/\ pc[r] \in {"new", "lead"}
             /\ pc'[r] \in {"wait", "done"}
             /\ ~(pc[r] = "new" /\ inference_running))
                => /\ queue' = <<>>
                   /\ pending'[r] = <<>>
                   /\ ~inference_running']_vars

\* C39 witness: the leader's own future was resolved by the first batch of
\* its loop and the leader is still in the loop, while a follower whose
\* future was resolved later has returned
C39_Witness ==
    \E l, f \in Req :
        /\ l # f
        /\ pc[l] = "lead"
        /\ HasOwnResult(l)
        /\ calls[1].leader = l
        /\ calls[1].reqs = <<l>>
        /\ pc[f] = "done"
        /\ HasOwnResult(f)
        /\ InFlight

\* =================================================================
\* Model cache (src/celestial_tts/model/local/model_cache.py)
\* =================================================================
\* Largest max_loaded_models a run is configured with.
MaxCapacity == 2
\* Number of model instances (loader results, put arguments) of a run.
MaxHandles == 4

\* LocalTTSType, the cache's keys
ModelTypes ==
    {"qwen3-tts-1.7b-preset", "qwen3-tts-0.6b-preset", "qwen3-tts-1.7b-voice-clone",
     "qwen3-tts-0.6b-voice-clone", "qwen3-tts-1.7b-voice-design"}

CacheIds(c) == [i \in 1..Len(c) |-> c[i].id]
\* `model_type in self._cache`
Resident(c, id) == \E i \in 1..Len(c) : c[i].id = id
\* `self._cache[model_type]`
Lookup(c, id) == c[CHOOSE i \in 1..Len(c) : c[i].id = id].handle
\* the sequence without the entry of id
Without(c, id) ==
    LET keep == {i \in 1..Len(c) : c[i].id # id}
        nth[k \in 0..Len(c)] ==
            IF k = 0 THEN 0 ELSE CHOOSE i \in keep : i > nth[k - 1] /\ \A j \in keep : j > nth[k - 1] => i <= j
    IN [k \in 1..Cardinality(keep) |-> c[nth[k]]]

\* mutant: a hit leaves the entry where it was
StayInPlace(c, id) == c

\* `self._cache.move_to_end(model_type)`
MoveToEnd(c, id) == Append(Without(c, id), [id |-> id, handle |-> Lookup(c, id)])

\* mutant: the cache evicts only once it is over capacity
OverFull(c, cap) == Len(c) > cap

\* `len(self._cache) >= self.max_loaded_models` (line 70)
Full(c, cap) == Len(c) >= cap

\* mutant: popitem(last=True), the most recently used entry goes
PopLast(c) == SubSeq(c, 1, Len(c) - 1)

\* `self._cache.popitem(last=False)` (line 72)
PopFirst(c) == Tail(c)

\* mutant: put() treats every id as a new one
PutAsNew(c, cap, id, h) ==
    Append(IF Full(c, cap) THEN PopFirst(c) ELSE c, [id |-> id, handle |-> h])

\* put(), lines 64-76
PutInto(c, cap, id, h) ==
    IF Resident(c, id)
    THEN Append(Without(c, id), [id |-> id, handle |-> h])
    ELSE Append(IF Full(c, cap) THEN PopFirst(c) ELSE c, [id |-> id, handle |-> h])

\* history kept by an insertion of id
RunAfterPut(id) ==
    /\ loadRun' = IF pure /\ ~Resident(cache, id) THEN Append(loadRun, id) ELSE <<>>
    /\ pure' = (pure /\ ~Resident(cache, id))

Touched ==
    /\ loadRun' = <<>>
    /\ pure' = FALSE

\* `None`, where a model instance is expected
NoModel == 0
NoId == "none"

\* mutant: get() finds nothing
GetMisses(c, id) == NoModel

\* what get() returns, lines 28-32
GetReturn(c, id) == IF Resident(c, id) THEN Lookup(c, id) ELSE NoModel

\* mutant: get() returns the model and leaves the order alone
CacheUntouchedByGet(c, id) == c

\* the cache get() leaves, lines 28-30
CacheAfterGet(c, id) == IF Resident(c, id) THEN MoveToEnd(c, id) ELSE c

\* mutant: get_or_put() reserves the entry before the loader has returned
PutThenLoad(c, cap, id, h, loaderRaised) == PutInto(c, cap, id, h)

\* get_or_put() on a miss, lines 52-53: `model = loader()` and, when it
\* returned, `self.put(model_type, model)`
LoadThenPut(c, cap, id, h, loaderRaised) ==
    IF loaderRaised THEN c ELSE PutInto(c, cap, id, h)

\* The unload() calls a cache operation makes on the entries it drops:
\* put() (line 73 is a comment), remove() (line 88) and clear() (line 92)
\* call nothing on the models they drop.
UnloadCalls(dropped) == {}

\* the entries of c whose ids c2 no longer holds
Gone(c, c2) == {c[i] : i \in 1..Len(c)} \ {c[i] : i \in {j \in 1..Len(c) : Resident(c2, c[j].id)}}

\* the least recently used id of c other than id
NextLru(c, id) == IF Len(Without(c, id)) > 0 THEN Head(Without(c, id)).id ELSE NoId

\* the record of an operation: its name and argument, whether the id was
\* resident when it was called, the loader calls it made, whether the
\* loader raised, whether the operation raised, what it returned, the
\* entries it dropped, the handles it called unload() on; for get() the id
\* that was next in line after the one it refreshed, and for an insertion
\* the id (and that next one) of a get() hit that came right before it
Outcome(op, id, hit, loads, loaderRaised, raised, ret, dropped, refreshed, victim) ==
    [op |-> op, id |-> id, hit |-> hit, loads |-> loads,
     loaderRaised |-> loaderRaised, raised |-> raised, ret |-> ret,
     dropped |-> dropped, unloaded |-> UnloadCalls(dropped),
     refreshed |-> refreshed, victim |-> victim]

NoOutcome == Outcome("none", NoId, FALSE, 0, FALSE, FALSE, NoModel, {}, NoId, NoId)

\* the get() hit an insertion follows, if it follows one
RefreshedBefore == IF last.op = "get" /\ last.hit THEN last.id ELSE NoId
VictimBefore == IF last.op = "get" /\ last.hit THEN last.victim ELSE NoId

\* history: id was touched by a successful get or put, and the ids cache c
\* no longer holds are forgotten
TouchedNow(rec, id, c) ==
    SelectSeq(Append(SelectSeq(rec, LAMBDA x : x # id), id), LAMBDA x : Resident(c, x))
Forgotten(rec, c) == SelectSeq(rec, LAMBDA x : Resident(c, x))

\* get(), lines 28-32
GetBody(id) ==
    /\ cache' = CacheAfterGet(cache, id)
    /\ IF Resident(cache, id) THEN Touched ELSE UNCHANGED <<loadRun, pure>>
    /\ recency' = IF Resident(cache, id) THEN TouchedNow(recency, id, cache') ELSE recency
    /\ last' = Outcome("get", id, Resident(cache, id), 0, FALSE, FALSE,
                       GetReturn(cache, id), {}, NoId,
                       IF Resident(cache, id) THEN NextLru(cache, id) ELSE NoId)
    /\ UNCHANGED <<max_loaded_models, nextHandle>>

Get(id) ==
    /\ CacheOnly
    /\ GetBody(id)

\* get_or_put(), lines 47-54; the loader returns a new instance or raises
GetOrPut(id, loaderRaises) ==
    /\ CacheOnly
    /\ IF GetReturn(cache, id) # NoModel
       THEN /\ ~loaderRaises
            /\ cache' = CacheAfterGet(cache, id)
            /\ IF Resident(cache, id) THEN Touched ELSE UNCHANGED <<loadRun, pure>>
            /\ last' = Outcome("get_or_put", id, Resident(cache, id), 0, FALSE, FALSE,
                               GetReturn(cache, id), {}, NoId, NoId)
            /\ recency' = TouchedNow(recency, id, cache')
            /\ UNCHANGED <<max_loaded_models, nextHandle>>
       ELSE /\ nextHandle <= MaxHandles
            /\ cache' = LoadThenPut(CacheAfterGet(cache, id), max_loaded_models, id,
                                    nextHandle, loaderRaises)
            /\ nextHandle' = IF loaderRaises THEN nextHandle ELSE nextHandle + 1
            /\ IF cache' = cache
               THEN UNCHANGED <<loadRun, pure>>
               ELSE RunAfterPut(id)
            /\ last' = Outcome("get_or_put", id, Resident(cache, id), 1, loaderRaises,
                               loaderRaises, IF loaderRaises THEN NoModel ELSE nextHandle,
                               Gone(cache, cache'), RefreshedBefore, VictimBefore)
            /\ recency' = IF loaderRaises THEN Forgotten(recency, cache')
                          ELSE TouchedNow(recency, id, cache')
            /\ UNCHANGED max_loaded_models

\* put(), lines 64-76, with a model instance the caller made
PutBody(id) ==
    /\ nextHandle <= MaxHandles
    /\ cache' = PutInto(cache, max_loaded_models, id, nextHandle)
    /\ nextHandle' = nextHandle + 1
    /\ RunAfterPut(id)
    /\ last' = Outcome("put", id, Resident(cache, id), 0, FALSE, FALSE, NoModel,
                       Gone(cache, cache'), RefreshedBefore, VictimBefore)
    /\ recency' = TouchedNow(recency, id, cache')
    /\ UNCHANGED max_loaded_models

Put(id) ==
    /\ CacheOnly
    /\ PutBody(id)

\* remove(), line 88
Remove(id) ==
    /\ CacheOnly
    /\ cache' = Without(cache, id)
    /\ IF Resident(cache, id) THEN Touched ELSE UNCHANGED <<loadRun, pure>>
    /\ last' = Outcome("remove", id, Resident(cache, id), 0, FALSE, FALSE,
                       GetReturn(cache, id), Gone(cache, cache'), NoId, NoId)
    /\ recency' = Forgotten(recency, cache')
    /\ UNCHANGED <<max_loaded_models, nextHandle>>

\* clear(), line 92
Clear ==
    /\ CacheOnly
    /\ cache' = <<>>
    /\ loadRun' = <<>>
    /\ pure' = TRUE
    /\ last' = Outcome("clear", NoId, FALSE, 0, FALSE, FALSE, NoModel,
                       Gone(cache, cache'), NoId, NoId)
    /\ recency' = Forgotten(recency, cache')
    /\ UNCHANGED <<max_loaded_models, nextHandle>>

\* LocalModelCache.__init__ (lines 14-16); max_loaded_models >= 1
\* (config/models.py line 20)
InitCache ==
    /\ max_loaded_models \in 1..MaxCapacity
    /\ cache = <<>>
    /\ nextHandle = 1
    /\ loadRun = <<>>
    /\ pure = TRUE
    /\ last = NoOutcome
    /\ recency = <<>>

\* the cache of a run that does not use it
CacheAtRest ==
    /\ max_loaded_models = 1
    /\ cache = <<>>
    /\ nextHandle = 1
    /\ loadRun = <<>>
    /\ pure = TRUE
    /\ last = NoOutcome
    /\ recency = <<>>

NextCache ==
    \/ \E id \in ModelTypes : Get(id)
    \/ \E id \in ModelTypes, loaderRaises \in BOOLEAN : GetOrPut(id, loaderRaises)
    \/ \E id \in ModelTypes : Put(id)
    \/ \E id \in ModelTypes : Remove(id)
    \/ Clear

\* ---- _get_or_load_model (src/runpod_handler.py lines 88-104): the cache
\* is consulted, and on a miss the loader runs in the one-thread executor
\* while the handler awaits it; the model is put when the await ends.
\* the _get_or_load_model calls in flight at a time
Loaders == 1..2
NotLoading == [stage |-> "idle", id |-> NoId, call |-> 0]

\* mutant: a call that misses joins the load in flight for its id
JoinsLoadInFlight(ld, id) == \E o \in Loaders : ld[o].stage = "loading" /\ ld[o].id = id

\* whether a call that misses waits for a load another call has begun:
\* lines 91-102 look at the cache only, there is no record of loads in
\* flight
JoinsLoad(ld, id) == FALSE

\* lines 91-102: get(); on a hit the call returns, on a miss it submits
\* _load_model_sync to the executor and awaits it
StartLoad(j, id) ==
    /\ LoadOnly
    /\ loading[j].stage = "idle"
    /\ GetBody(id)
    /\ IF GetReturn(cache, id) # NoModel
       THEN UNCHANGED lvars
       ELSE IF JoinsLoad(loading, id)
       THEN /\ loading' = [loading EXCEPT ![j] = [stage |-> "joined", id |-> id, call |-> 0]]
            /\ UNCHANGED loaderCalls
       ELSE /\ loaderCalls < MaxHandles
            /\ loaderCalls' = loaderCalls + 1
            /\ loading' = [loading EXCEPT ![j] =
                             [stage |-> "loading", id |-> id, call |-> loaderCalls + 1]]

\* the executor has one thread (line 45): the loads end in the order they
\* were submitted
OldestLoad(j) ==
    \A o \in Loaders : loading[o].stage = "loading" => loading[j].call <= loading[o].call

\* lines 97-104: the loader returned, the await ends, put() and return
FinishLoad(j) ==
    /\ LoadOnly
    /\ loading[j].stage = "loading"
    /\ OldestLoad(j)
    /\ PutBody(loading[j].id)
    /\ loading' = [o \in Loaders |->
                     IF o = j \/ (loading[o].stage = "joined" /\ loading[o].id = loading[j].id)
                     THEN NotLoading ELSE loading[o]]
    /\ UNCHANGED loaderCalls

\* the loader raised: the exception leaves _get_or_load_model at line 97
FailLoad(j) ==
    /\ LoadOnly
    /\ loading[j].stage = "loading"
    /\ OldestLoad(j)
    /\ loading' = [o \in Loaders |->
                     IF o = j \/ (loading[o].stage = "joined" /\ loading[o].id = loading[j].id)
                     THEN NotLoading ELSE loading[o]]
    /\ UNCHANGED <<cvars, loaderCalls>>

InitLoad ==
    /\ loading = [j \in Loaders |-> NotLoading]
    /\ loaderCalls = 0
LoadAtRest ==
    /\ InitLoad

NextLoad ==
    \/ \E j \in Loaders, id \in ModelTypes : StartLoad(j, id)
    \/ \E j \in Loaders : FinishLoad(j)
    \/ \E j \in Loaders : FailLoad(j)

\* ------------------------------------------------------ cache: properties
\* C2: the cache never holds more entries than max_loaded_models.
C2_WithinCapacity == Len(cache) <= max_loaded_models

\* C2 witness: more ids were inserted than the cache may hold, and it is full
C2_Witness ==
    /\ pure
    /\ Len(loadRun) > max_loaded_models
    /\ Len(cache) = max_loaded_models

\* C10: after N+1 insertions of absent ids into a new cache of capacity N,
\* with no other operation touching the cache, the cache holds exactly the
\* ids inserted second to last, in that order: the first one, and no other,
\* was evicted.
C10_FirstLoadedEvicted ==
    (pure /\ Len(loadRun) = max_loaded_models + 1)
        => /\ CacheIds(cache) = Tail(loadRun)
           /\ ~Resident(cache, Head(loadRun))

\* C10 witness: capacity 2, three ids loaded, the last two resident
C10_Witness ==
    /\ pure
    /\ max_loaded_models = 2
    /\ Len(loadRun) = 3
    /\ Cardinality({loadRun[i] : i \in 1..3}) = 3
    /\ Len(cache) = 2

\* an insertion of an id that was not resident
Inserted == last.op \in {"put", "get_or_put"} /\ ~last.hit /\ ~last.raised
DroppedIds == {e.id : e \in last.dropped}
DroppedHandles == {e.handle : e \in last.dropped}

\* C11: when a get() hits id A and the next operation inserts an absent id
\* into the full cache, which held another entry besides A, then A is still
\* resident and the one entry evicted is the least recently used of the
\* others; with capacity 2 the cache is then A followed by the new id.
C11_GetChangesVictim ==
    (Inserted /\ last.refreshed # NoId /\ last.victim # NoId /\ last.dropped # {})
        => /\ Resident(cache, last.refreshed)
           /\ DroppedIds = {last.victim}
           /\ max_loaded_models = 2 => CacheIds(cache) = <<last.refreshed, last.id>>

\* C11 witness: capacity 2, get(A) on the older of two entries, then an
\* insertion that evicted the other one
C11_Witness ==
    /\ Inserted
    /\ max_loaded_models = 2
    /\ last.refreshed # NoId
    /\ last.victim # NoId
    /\ DroppedIds = {last.victim}
    /\ Len(cache) = 2

\* C12: get_or_put() on an id resident when it is called makes no loader
\* call and returns the handle the cache holds for the id.
C12_ResidentNeverLoads ==
    (last.op = "get_or_put" /\ last.hit)
        => /\ last.loads = 0
           /\ ~last.raised
           /\ Resident(cache, last.id)
           /\ last.ret = Lookup(cache, last.id)
           /\ last.ret # NoModel

\* C12 witness: a get_or_put() that found its id resident
C12_Witness == last.op = "get_or_put" /\ last.hit /\ Len(cache) = 2

\* C13: a get_or_put() on an absent id whose loader raises raises itself
\* and leaves the cache as it was: same entries, same handles, same order.
C13_FailedLoadChangesNothing ==
    [][(last'.op = "get_or_put" /\ ~last'.hit /\ last'.loaderRaised)
          => /\ last'.raised
             /\ last'.ret = NoModel
             /\ cache' = cache
             /\ ~Resident(cache', last'.id)
             /\ last'.dropped = {}]_vars

\* C13 witness: the loader raised on an absent id while the cache was full
C13_Witness ==
    /\ last.op = "get_or_put"
    /\ ~last.hit
    /\ last.loaderRaised
    /\ Len(cache) = max_loaded_models
    /\ max_loaded_models = 2

\* C14: when put() evicts the least recently used entry to insert a new id,
\* unload() has been called on the evicted handle when put() returns.
C14_EvictedTornDown ==
    (Inserted /\ last.dropped # {}) => DroppedHandles \subseteq last.unloaded

\* C15: remove() of a resident id and clear() call unload() on every handle
\* they drop from the cache.
C15_RemovedTornDown ==
    (last.op \in {"remove", "clear"}) => DroppedHandles \subseteq last.unloaded

\* C31: the cache holds its entries in the order of their last successful
\* get or put, the oldest first, and an insertion that evicts drops the one
\* entry whose last touch is the oldest.
C31_OrderedByLastTouch ==
    /\ [](CacheIds(cache) = recency)
    /\ [][(last' # last /\ Inserted' /\ last'.dropped # {})
            => {e.id : e \in last'.dropped} = {Head(recency)}]_vars

\* C31 witness: capacity 2; the entry inserted first was touched again, so
\* the insertion that followed evicted the one inserted second
C31_Witness ==
    /\ max_loaded_models = 2
    /\ Inserted
    /\ last.dropped # {}
    /\ Len(recency) = 2
    /\ \E e \in last.dropped : e.handle > Lookup(cache, recency[1])

\* the calls awaiting a load of id
LoadingOf(id) == {j \in Loaders : loading[j].stage = "loading" /\ loading[j].id = id}

\* C32: _get_or_load_model calls are not coordinated: a call that misses
\* makes a loader call of its own and awaits it, also when another call is
\* already loading the same id; two calls that overlap on one absent id
\* make two loader calls.
C32_OverlappingMissesLoadTwice ==
    /\ [](\A j \in Loaders : loading[j].stage \in {"idle", "loading"})
    /\ [](\A j, o \in Loaders :
            (j # o /\ loading[j].stage = "loading" /\ loading[o].stage = "loading")
               => /\ loading[j].call # loading[o].call
                  /\ loaderCalls >= 2)
    /\ [][\A j \in Loaders :
            (/\ loading[j].stage = "idle"
             /\ last'.op = "get" /\ ~last'.hit
             /\ loading'[j] # loading[j])
               => /\ loading'[j].stage = "loading"
                  /\ loaderCalls' = loaderCalls + 1
                  /\ loading'[j].call = loaderCalls']_vars

\* C32 witness: both calls missed one id and each awaits its own load
C32_Witness ==
    \E id \in ModelTypes :
        /\ LoadingOf(id) = Loaders
        /\ ~Resident(cache, id)
        /\ loaderCalls = 2

\* C37: put() on a resident id replaces its handle and makes it the most
\* recently used, drops nothing and leaves the size as it was, full or not;
\* put() of a new id into a full cache drops exactly one entry.
C37_PutReplacesInPlace ==
    [][(last' # last /\ last'.op = "put")
          => IF last'.hit
             THEN /\ Len(cache') = Len(cache)
                  /\ last'.dropped = {}
                  /\ cache'[Len(cache')] = [id |-> last'.id, handle |-> nextHandle]
                  /\ {cache'[i].id : i \in 1..Len(cache')} = {cache[i].id : i \in 1..Len(cache)}
                  /\ \A i \in 1..Len(cache) :
                       cache[i].id # last'.id => Lookup(cache', cache[i].id) = cache[i].handle
             ELSE /\ Len(cache) >= max_loaded_models
                       => (Cardinality(last'.dropped) = 1 /\ Len(cache') = Len(cache))
                  /\ Len(cache) < max_loaded_models
                       => (last'.dropped = {} /\ Len(cache') = Len(cache) + 1)]_vars

\* C37 witness: a put() on the older entry of a full cache of capacity 2
C37_Witness ==
    /\ last.op = "put"
    /\ last.hit
    /\ max_loaded_models = 2
    /\ Len(cache) = 2
    /\ cache[2].id = last.id
    /\ cache[2].handle > cache[1].handle + 1

\* =================================================================
\* Auth tokens (src/celestial_tts/database/model/auth_token.py,
\*              src/celestial_tts/database/controller/auth_token.py)
\* =================================================================
\* The ids uuid7() gives the tokens a run issues, in the order it makes them.
TokenIds == 1..2
\* The clock runs from 0 to MaxTime.
MaxTime == 1

\* TOKEN_PREFIX (model/auth_token.py line 11)
TOKEN_PREFIX == "sk-ct-v1-"
\* the secrets secrets.token_urlsafe can draw, the salts of argon2, the
\* names callers give
SecretIds == {1, 2}
Salts == {"salt"}
Names == <<"svc", "ops">>

\* Optional[datetime]
NoTime == [some |-> FALSE, at |-> 0]
Time(t) == [some |-> TRUE, at |-> t]

\* A text is a sequence of atoms: the string of a UUID, the separator ":",
\* a generated secret, or other characters.
UuidStr(id) == [t |-> "uuid", v |-> id]
Sep == [t |-> "sep", v |-> 0]
SecretStr(n) == [t |-> "secret", v |-> n]
Junk == [t |-> "junk", v |-> 0]

\* generate_secret(), line 29: the n-th secret
GenerateSecret(n) == <<SecretStr(n)>>

\* mutant: the hash is taken of the empty string
HashOfNothing(secret, salt) == [alg |-> "argon2", salt |-> salt, of |-> <<>>]

\* mutant: the secret is stored as it is
PlainSecret(secret, salt) == [alg |-> "plain", salt |-> salt, of |-> secret]

\* hash_secret(), line 34: the argon2 hash of the secret under a fresh salt
HashSecret(secret, salt) == [alg |-> "argon2", salt |-> salt, of |-> secret]

\* mutant: any secret matches a hash
VerifyAnySecret(secret, hash) == hash.alg = "argon2"

\* verify_secret(), line 39
VerifySecret(secret, hash) == hash.alg = "argon2" /\ hash.of = secret

\* base64.urlsafe_b64encode / urlsafe_b64decode.  A payload is the text it
\* encodes, whether characters outside the base64url alphabet are strewn in
\* it, and whether its length and padding are those of an encoding.
\* urlsafe_b64decode drops the characters outside the alphabet and raises
\* only on the padding (binascii.Error, a ValueError).
B64Encode(text) == [stray |-> FALSE, padded |-> TRUE, text |-> text]
\* `base64.urlsafe_b64decode(encoded_part).decode()` does not raise
B64Valid(payload) == payload.padded
B64Decode(payload) == payload.text
\* a payload cut short
NotB64 == [stray |-> FALSE, padded |-> FALSE, text |-> <<>>]
\* a payload with characters outside the alphabet strewn in
WithStray(payload) == [payload EXCEPT !.stray = TRUE]

\* mutant: the secret comes first in the payload
EncodeSecretFirst(id, secret) ==
    [prefix |-> TOKEN_PREFIX, payload |-> B64Encode(secret \o <<Sep, UuidStr(id)>>)]

\* encode_token(), lines 46-48
EncodeToken(id, secret) ==
    [prefix |-> TOKEN_PREFIX, payload |-> B64Encode(<<UuidStr(id), Sep>> \o secret)]

NoneDecoded == [ok |-> FALSE, id |-> 0, secret |-> <<>>]

\* decode_token(), lines 56-65
DecodeToken(token) ==
    IF token.prefix # TOKEN_PREFIX THEN NoneDecoded
    ELSE IF ~B64Valid(token.payload) THEN NoneDecoded
    ELSE LET decoded == B64Decode(token.payload)
             seps == {i \in 1..Len(decoded) : decoded[i] = Sep}
         IN IF seps = {} THEN NoneDecoded
            ELSE LET i == CHOOSE x \in seps : \A y \in seps : x <= y
                     id_str == SubSeq(decoded, 1, i - 1)
                     secret == SubSeq(decoded, i + 1, Len(decoded))
                 IN IF Len(id_str) = 1 /\ id_str[1].t = "uuid"
                    THEN [ok |-> TRUE, id |-> id_str[1].v, secret |-> secret]
                    ELSE NoneDecoded

\* mutant: a token has expired from the instant of its expiry on
IsExpiredAtInstant(row, t) == row.expires_at.some /\ t >= row.expires_at.at

\* is_expired(), lines 69-71
IsExpired(row, t) == row.expires_at.some /\ t > row.expires_at.at

\* mutant: a revoked token stays valid
IsValidThoughRevoked(row, t) == ~IsExpired(row, t)

\* is_valid(), line 75
IsValid(row, t) == ~row.revoked /\ ~IsExpired(row, t)

\* the token strings callers present
WellFormedTokens ==
    {EncodeToken(id, GenerateSecret(n)) : id \in TokenIds, n \in SecretIds}
MalformedTokens ==
    {[prefix |-> "Bearer ", payload |-> B64Encode(<<UuidStr(1), Sep, SecretStr(1)>>)],
     [prefix |-> TOKEN_PREFIX, payload |-> NotB64],
     [prefix |-> TOKEN_PREFIX, payload |-> WithStray(B64Encode(<<UuidStr(1), Sep, SecretStr(1)>>))],
     [prefix |-> TOKEN_PREFIX, payload |-> B64Encode(<<UuidStr(1), SecretStr(1)>>)],
     [prefix |-> TOKEN_PREFIX, payload |-> B64Encode(<<UuidStr(1), Sep, SecretStr(1), Sep>>)],
     [prefix |-> TOKEN_PREFIX, payload |-> B64Encode(<<Junk, Sep, SecretStr(1)>>)]}
TokenStrings == WellFormedTokens \cup MalformedTokens

\* mutant: the response names the check that failed
UnauthenticatedFor(cause) == [status |-> 401, detail |-> cause]

\* get_authenticated_token(), injectors.py lines 47-52: verify_token
\* returned None, whichever `return None` it was
Unauthenticated(cause) == [status |-> 401, detail |-> "Invalid or expired token"]

\* mutant: the row is looked up before the token string is decoded
SelectsAnyway(d) == 1

\* the selects verify_token makes: it returns at line 63 before it opens a
\* session when decode_token returned None, else it makes the one of
\* lines 68-70
Selects(d) == IF d.ok THEN 1 ELSE 0

\* history: the expiry given at issue had passed at time t
ExpiredAt(id, t) == issued[id].expires_at.some /\ t > issued[id].expires_at.at

NoSession == [stage |-> "idle"]
NoResult == [out |-> "none"]

\* history: the tokens issued and not deleted since
DeletedIds == DOMAIN issued \ DOMAIN rows

\* Secrets and names are interchangeable: the values are numbered in the
\* order in which a run first uses them.
FirstUse(used, v) == v <= Cardinality(used) + 1
SecretsIssued == {issued[i].secret[1].v : i \in DOMAIN issued}
NamesIssued == {issued[i].name : i \in DOMAIN issued}

\* create_auth_token(), lines 20-34; created_at, which no operation reads,
\* is left out of the row
Issue(name, expires_at, n, salt) ==
    /\ TokenOnly
    /\ nextId \in TokenIds
    /\ FirstUse(SecretsIssued, n)
    /\ \E k \in 1..Len(Names) : Names[k] = name /\ FirstUse(NamesIssued, k)
    /\ rows' = rows @@ (nextId :>
            [name |-> name,
             secret_hash |-> HashSecret(GenerateSecret(n), salt),
             last_used_at |-> NoTime,
             expires_at |-> expires_at,
             revoked |-> FALSE])
    /\ issued' = issued @@ (nextId :>
            [name |-> name, secret |-> GenerateSecret(n), expires_at |-> expires_at])
    /\ nextId' = nextId + 1
    /\ UNCHANGED <<now, revokedIds, vs, vres>>

\* mutant: the select finds a row for any id
FoundAlways(rs, id) == TRUE

\* `token is None` is false (lines 102, 123): the select found a row
Found(rs, id) == id \in DOMAIN rs

\* mutant: the commit writes the whole row as the call read it
PersistWhole(row, snapshot, t) == [snapshot EXCEPT !.last_used_at = Time(t)]

\* the UPDATE of the commit of line 85 sets the one column the call
\* assigned, last_used_at, in the row as it is stored then
Persist(row, snapshot, t) == [row EXCEPT !.last_used_at = Time(t)]

\* verify_token(), lines 61-80: decode, select, the three checks.  A call
\* that passes them goes on to its commit.
VerifyRead(token) ==
    /\ TokenOnly
    /\ vs.stage = "idle"
    /\ LET d == DecodeToken(token)
           rejected(cause) ==
                       [out |-> "invalid", tok |-> token,
                        issuedBefore |-> d.id \in DOMAIN issued,
                        revokedBefore |-> d.id \in revokedIds,
                        expiredBefore |-> d.id \in DOMAIN issued /\ ExpiredAt(d.id, now),
                        deletedBefore |-> d.id \in DeletedIds,
                        dec |-> d.ok, selects |-> Selects(d), commits |-> 0,
                        cause |-> cause, resp |-> Unauthenticated(cause)]
       IN IF ~d.ok THEN vres' = rejected("malformed") /\ vs' = vs
          ELSE IF d.id \notin DOMAIN rows THEN vres' = rejected("unknown") /\ vs' = vs
          ELSE IF ~IsValid(rows[d.id], now)
               THEN /\ vres' = rejected(IF rows[d.id].revoked THEN "revoked" ELSE "expired")
                    /\ vs' = vs
          ELSE IF ~VerifySecret(d.secret, rows[d.id].secret_hash)
               THEN vres' = rejected("secret") /\ vs' = vs
          ELSE /\ vs' = [stage |-> "commit", tok |-> token, id |-> d.id, at |-> now,
                         row |-> rows[d.id],
                         issuedBefore |-> d.id \in DOMAIN issued,
                         revokedBefore |-> d.id \in revokedIds,
                         expiredBefore |-> ExpiredAt(d.id, now),
                         deletedBefore |-> d.id \in DeletedIds]
               /\ vres' = vres
    /\ UNCHANGED <<rows, now, nextId, issued, revokedIds>>

\* verify_token(), lines 83-88: last_used_at is written, the session
\* commits (an UPDATE of that column of the row with this id) and the row is
\* read again.  The UPDATE of a row that is gone raises.
VerifyCommit ==
    /\ TokenOnly
    /\ vs.stage = "commit"
    /\ IF vs.id \in DOMAIN rows
       THEN /\ rows' = [rows EXCEPT ![vs.id] = Persist(@, vs.row, vs.at)]
            /\ vres' = [out |-> "record", tok |-> vs.tok,
                        issuedBefore |-> vs.issuedBefore,
                        revokedBefore |-> vs.revokedBefore,
                        expiredBefore |-> vs.expiredBefore,
                        deletedBefore |-> vs.deletedBefore,
                        dec |-> TRUE, selects |-> 1, commits |-> 1,
                        rec |-> [id |-> vs.id, name |-> rows'[vs.id].name]]
       ELSE /\ vres' = [out |-> "error", tok |-> vs.tok,
                        issuedBefore |-> vs.issuedBefore,
                        revokedBefore |-> vs.revokedBefore,
                        expiredBefore |-> vs.expiredBefore,
                        deletedBefore |-> vs.deletedBefore,
                        dec |-> TRUE, selects |-> 1, commits |-> 0]
            /\ UNCHANGED rows
    /\ vs' = NoSession
    /\ UNCHANGED <<now, nextId, issued, revokedIds>>

\* no row: `result.first()` is None
NoRow == [name |-> "", secret_hash |-> [alg |-> "none", salt |-> "", of |-> <<>>],
          last_used_at |-> NoTime, expires_at |-> NoTime, revoked |-> FALSE]

\* mutant: revoke flips the flag
ToggleRevoked(row) == [row EXCEPT !.revoked = ~@]

\* `token.revoked = True` (line 105)
RevokeRow(row) == [row EXCEPT !.revoked = TRUE]

\* mutant: delete marks the row and keeps it
SoftDelete(rs, id) == [rs EXCEPT ![id].revoked = TRUE]

\* `await session.delete(token)` and the commit (lines 126-127)
DeleteRow(rs, id) == [i \in DOMAIN rs \ {id} |-> rs[i]]

\* revoke_auth_token(), lines 96-109: what it returned, the row it found, and
\* whether the id was that of a deleted token
Revoke(id) ==
    /\ TokenOnly
    /\ IF Found(rows, id)
       THEN /\ rows' = [rows EXCEPT ![id] = RevokeRow(@)]
            /\ revokedIds' = revokedIds \cup {id}
       ELSE UNCHANGED <<rows, revokedIds>>
    /\ vres' = [out |-> "revoke", id |-> id, ret |-> Found(rows, id),
                before |-> IF id \in DOMAIN rows THEN rows[id] ELSE NoRow,
                deletedBefore |-> id \in DeletedIds]
    /\ UNCHANGED <<now, nextId, issued, vs>>

\* delete_auth_token(), lines 117-129
Delete(id) ==
    /\ TokenOnly
    /\ IF Found(rows, id)
       THEN rows' = DeleteRow(rows, id)
       ELSE UNCHANGED rows
    /\ vres' = [out |-> "delete", id |-> id, ret |-> Found(rows, id),
                before |-> IF id \in DOMAIN rows THEN rows[id] ELSE NoRow,
                deletedBefore |-> id \in DeletedIds]
    /\ UNCHANGED <<now, nextId, issued, revokedIds, vs>>

\* time passes
Tick ==
    /\ TokenOnly
    /\ now < MaxTime
    /\ now' = now + 1
    /\ UNCHANGED <<rows, nextId, issued, revokedIds, vs, vres>>

\* an empty auth_token table
InitToken ==
    /\ rows = <<>>
    /\ now = 0
    /\ nextId = 1
    /\ issued = <<>>
    /\ revokedIds = {}
    /\ vs = NoSession
    /\ vres = NoResult

\* the token store of a run that does not use it
TokensAtRest == InitToken

NextToken ==
    \/ \E name \in {Names[k] : k \in 1..Len(Names)}, t \in 0..MaxTime, some \in BOOLEAN,
          n \in SecretIds, salt \in Salts :
          Issue(name, IF some THEN Time(t) ELSE NoTime, n, salt)
    \/ \E token \in TokenStrings : VerifyRead(token)
    \/ VerifyCommit
    \/ \E id \in TokenIds : Revoke(id)
    \/ \E id \in TokenIds : Delete(id)
    \/ Tick

\* ----------------------------------------------------- tokens: properties
\* the token string issue(name) hands out for id
IssuedToken(id) == EncodeToken(id, issued[id].secret)
\* the last operation on the store was a verify_token call
Finished == vres.out \in {"invalid", "record", "error"}

\* C8: a verify_token call made for the token string of an issued token,
\* with the issued secret, after the token was revoked or after its expiry
\* has passed, returns nothing.
C8_RevokedOrExpiredFails ==
    \A id \in DOMAIN issued :
        (/\ Finished
         /\ vres.tok = IssuedToken(id)
         /\ (vres.revokedBefore \/ vres.expiredBefore))
            => vres.out = "invalid"

\* C8 witness: the token string verify_token accepted is refused after the
\* revocation of its token
C8_Witness ==
    \E id \in DOMAIN issued :
        /\ Finished
        /\ vres.tok = IssuedToken(id)
        /\ vres.revokedBefore
        /\ id \in DOMAIN rows
        /\ rows[id].last_used_at.some
        /\ vres.out = "invalid"

\* C9: verify_token of the token string of a token issued before, that was neither
\* revoked nor deleted, made no later than its expiry, returns the record
\* with the id and the name of the issued one.
C9_IssuedTokenVerifies ==
    \A id \in DOMAIN issued :
        (/\ Finished
         /\ vres.tok = IssuedToken(id)
         /\ vres.issuedBefore
         /\ id \notin revokedIds
         /\ id \notin DeletedIds
         /\ ~vres.expiredBefore)
            => /\ vres.out = "record"
               /\ vres.rec.id = id
               /\ vres.rec.name = issued[id].name

\* C9 witness: the second token issued, with an expiry, verified at the
\* instant of its expiry
C9_Witness ==
    /\ Finished
    /\ 2 \in DOMAIN issued
    /\ 2 \in DOMAIN rows
    /\ vres.tok = IssuedToken(2)
    /\ issued[2].expires_at.some
    /\ rows[2].last_used_at = Time(issued[2].expires_at.at)
    /\ vres.out = "record"
    /\ vres.rec.id = 2
    /\ vres.rec.name = issued[2].name

\* what the claims call a well-formed token string
HasPrefix(token) == token.prefix = TOKEN_PREFIX
ValidBase64Url(payload) == ~payload.stray /\ payload.padded
Separators(payload) == Cardinality({i \in 1..Len(payload.text) : payload.text[i] = Sep})

\* C18: decode_token returns None for every string that lacks the prefix,
\* whose payload is not valid base64url, or whose decoded payload does not
\* hold exactly one separator.
C18_DecodeRejectsMalformed ==
    (Finished /\ (\/ ~HasPrefix(vres.tok)
                  \/ ~ValidBase64Url(vres.tok.payload)
                  \/ Separators(vres.tok.payload) # 1))
        => ~vres.dec

\* C19: a verify_token call whose token string decode_token rejects returns
\* None without a select or a commit, and its step leaves the table as it
\* was.
C19_RejectedDecodeTouchesNothing ==
    [][(vres'.out \in {"invalid", "record", "error"} /\ ~vres'.dec /\ vres' # vres)
          => /\ vres'.out = "invalid"
             /\ vres'.selects = 0
             /\ vres'.commits = 0
             /\ rows' = rows
             /\ vs' = vs]_vars

\* C19 witness: a string without the prefix that names an issued token was
\* rejected while the table held the token's row
C19_Witness ==
    /\ vres.out = "invalid"
    /\ ~vres.dec
    /\ ~HasPrefix(vres.tok)
    /\ vres.selects = 0
    /\ 1 \in DOMAIN rows

\* C20: whichever check of verify_token fails (the string does not decode,
\* no row has the id, the row is revoked, the row has expired, the secret
\* does not match), verify_token returns None and the caller gets one and
\* the same response, which does not depend on the check.
C20_OneRejection ==
    (vres.out = "invalid")
        => /\ vres.cause \in {"malformed", "unknown", "revoked", "expired", "secret"}
           /\ vres.resp = [status |-> 401, detail |-> "Invalid or expired token"]
           /\ \A cause \in {"malformed", "unknown", "revoked", "expired", "secret"} :
                vres.resp = Unauthenticated(cause)

\* C20 witness: a token of an issued id with another token's secret was
\* rejected by the last check
C20_Witness ==
    /\ vres.out = "invalid"
    /\ vres.cause = "secret"
    /\ vres.tok \in WellFormedTokens
    /\ vres.issuedBefore


\* C21: a row is valid exactly when it is not revoked and either has no
\* expiry or the clock is at or before its expiry; at the very instant of
\* its expiry it is still valid.
C21_ValidIffNotRevokedNotPast ==
    \A id \in DOMAIN rows :
        /\ IsValid(rows[id], now)
              <=> (~rows[id].revoked
                   /\ (~rows[id].expires_at.some \/ now <= rows[id].expires_at.at))
        /\ (~rows[id].revoked /\ rows[id].expires_at = Time(now)) => IsValid(rows[id], now)

\* C21 witness: the first token was verified at the instant of its expiry,
\* which has not passed since
C21_Witness ==
    /\ 1 \in DOMAIN rows
    /\ rows[1].expires_at = Time(now)
    /\ rows[1].last_used_at = Time(now)
    /\ ~rows[1].revoked
    /\ vres.out = "record"
    /\ vres.rec.id = 1

\* the token string names an issued id but not its secret
WrongSecretOf(token, iss) ==
    /\ DecodeToken(token).ok
    /\ DecodeToken(token).id \in DOMAIN iss
    /\ DecodeToken(token).secret # iss[DecodeToken(token).id].secret
WrongSecret(token) == WrongSecretOf(token, issued)

\* C22: verify_token of a string that carries the id of a row and a secret
\* other than the issued one never gets as far as the update, never returns
\* the row, and its step leaves every row as it was.
C22_IdAloneFails ==
    /\ [](vs.stage = "commit" => ~WrongSecret(vs.tok))
    /\ []((Finished /\ WrongSecret(vres.tok)) => vres.out = "invalid")
    /\ [][(Finished' /\ vres' # vres /\ WrongSecretOf(vres'.tok, issued')) => rows' = rows]_vars

\* C22 witness: the id of a valid, unexpired row with the other token's
\* secret was refused at the secret check, and the row was never used
C22_Witness ==
    /\ Finished
    /\ WrongSecret(vres.tok)
    /\ vres.out = "invalid"
    /\ vres.cause = "secret"
    /\ DecodeToken(vres.tok).id \in DOMAIN rows
    /\ IsValid(rows[DecodeToken(vres.tok).id], now)
    /\ ~rows[DecodeToken(vres.tok).id].last_used_at.some

\* C23: revoke_auth_token on an existing row returns True and leaves the
\* row present and revoked with its other fields as they were; on a row
\* that was revoked already it returns True again and changes nothing.
C23_RevokeIdempotent ==
    (vres.out = "revoke")
        => /\ vres.ret <=> vres.before # NoRow
           /\ vres.ret
                => /\ vres.id \in DOMAIN rows
                   /\ rows[vres.id].revoked
                   /\ rows[vres.id] = [vres.before EXCEPT !.revoked = TRUE]
           /\ (vres.ret /\ vres.before.revoked) => rows[vres.id] = vres.before

\* C23 witness: a revoke of a row that was revoked already
C23_Witness ==
    /\ vres.out = "revoke"
    /\ vres.ret
    /\ vres.before.revoked
    /\ vres.id \in DOMAIN rows

\* C24: after delete_auth_token returned True the row is gone; a
\* verify_token call made after that for the id fails, with the issued
\* secret too; a revoke or delete of the id made after that returns False.
C24_DeletePurges ==
    /\ (vres.out = "delete" /\ vres.ret) => vres.id \notin DOMAIN rows
    /\ (Finished /\ vres.deletedBefore) => vres.out = "invalid"
    /\ (vres.out \in {"revoke", "delete"} /\ vres.deletedBefore) => ~vres.ret

\* C24 witness: the issued token string of a deleted token was refused
C24_Witness ==
    \E id \in DeletedIds :
        /\ Finished
        /\ vres.tok = IssuedToken(id)
        /\ vres.deletedBefore
        /\ vres.out = "invalid"

\* C25: a verify_token call that passed its checks returns the record even
\* when the update of last_used_at cannot be persisted.
C25_UpdateIsBestEffort == Finished => vres.out \in {"invalid", "record"}

\* C26: no row holds a plaintext secret: the one field made from the secret
\* is secret_hash, an argon2 hash, and the other fields are the name, the
\* two times and the flag; what verify_token returns holds no secret.
C26_NoPlaintextStored ==
    /\ \A id \in DOMAIN rows :
         /\ DOMAIN rows[id] = {"name", "secret_hash", "last_used_at", "expires_at", "revoked"}
         /\ rows[id].secret_hash.alg = "argon2"
         /\ rows[id].secret_hash = HashSecret(issued[id].secret, rows[id].secret_hash.salt)
         /\ rows[id].name = issued[id].name
         /\ rows[id].revoked \in BOOLEAN
         /\ rows[id].expires_at = issued[id].expires_at
         /\ rows[id].last_used_at \in {NoTime} \cup {Time(t) : t \in 0..now}
    /\ vres.out = "record" => DOMAIN vres.rec = {"id", "name"}

\* C26 witness: two tokens issued, one used and one revoked
C26_Witness ==
    /\ DOMAIN rows = {1, 2}
    /\ rows[1].last_used_at.some
    /\ rows[2].revoked
    /\ issued[1].secret # issued[2].secret

\* C34: revoke_auth_token and delete_auth_token of an id that has no row
\* return False and leave the table as it was.
C34_UnknownIdIsNoOp ==
    /\ []((vres.out \in {"revoke", "delete"} /\ vres.before = NoRow) => ~vres.ret)
    /\ [][\A id \in TokenIds :
            (/\ vres'.out \in {"revoke", "delete"} /\ vres'.id = id /\ vres' # vres
             /\ id \notin DOMAIN rows)
               => /\ ~vres'.ret
                  /\ rows' = rows
                  /\ revokedIds' = revokedIds]_vars

\* C34 witness: a revoke of an id never issued, while the table held a row
C34_Witness ==
    /\ vres.out = "revoke"
    /\ vres.id \notin DOMAIN issued
    /\ ~vres.ret
    /\ rows # <<>>

\* the secrets the round trip is checked for: generated ones, the empty
\* one, and ones that hold the separator themselves
RoundTripSecrets ==
    {GenerateSecret(n) : n \in SecretIds}
      \cup {<<>>, <<SecretStr(1), Sep, SecretStr(2)>>, <<Sep>>, <<Junk, Sep>>}

\* C35: decode_token inverts encode_token: for every id and secret,
\* decode_token(encode_token(id, secret)) is (id, secret); so it is for the
\* token strings verify_token was given.  (encode_token reads nothing but
\* its arguments.)
C35_DecodeInvertsEncode ==
    /\ \A id \in TokenIds, secret \in RoundTripSecrets :
         DecodeToken(EncodeToken(id, secret)) = [ok |-> TRUE, id |-> id, secret |-> secret]
    /\ \A id \in DOMAIN issued :
         /\ DecodeToken(IssuedToken(id)) = [ok |-> TRUE, id |-> id, secret |-> issued[id].secret]
         /\ (Finished /\ vres.tok = IssuedToken(id)) => vres.dec

\* C35 witness: the token string of the second token issued was decoded by
\* verify_token
C35_Witness ==
    /\ 2 \in DOMAIN issued
    /\ Finished
    /\ vres.tok = IssuedToken(2)
    /\ vres.dec
    /\ DecodeToken(vres.tok).id = 2

\* C40: once revoke_auth_token has committed for a row, the row's revoked
\* flag is true for as long as the row exists, also after the commit of a
\* verify_token call that read the row before the revoke.
C40_RevocationPermanent ==
    \A id \in revokedIds : id \in DOMAIN rows => rows[id].revoked

\* C40 witness: a verify_token call read the row, the row was revoked, and
\* the call committed its last_used_at
C40_Witness ==
    /\ vres.out = "record"
    /\ ~vres.revokedBefore
    /\ vres.rec.id \in revokedIds
    /\ vres.rec.id \in DOMAIN rows
    /\ rows[vres.rec.id].last_used_at.some
    /\ rows[vres.rec.id].revoked

\* =================================================================
\* Entry points that serve generation
\* (src/celestial_tts/__init__.py, src/celestial_tts/injectors.py,
\*  src/celestial_tts/routes/generate.py, src/runpod_handler.py)
\*
\* POST /api/v1/generate is a route of the v1 router, whose dependency
\* get_authenticated_token FastAPI resolves before it calls the route.  The
\* RunPod handler dispatches job["input"] to _handle_generate.
\* =================================================================
\* the requests in flight at a time
Jobs == 1..2

Idle == [entry |-> "none", token |-> "none", stage |-> "idle", verified |-> FALSE,
         consulted |-> FALSE, generated |-> FALSE, via |-> "none", status |-> 0]

\* a request reaches POST /api/v1/generate with a bearer token that
\* verify_token accepts or not (__init__.py lines 46-57)
HttpArrive(j, token) ==
    /\ EntryOnly
    /\ flow[j].stage = "idle"
    /\ flow' = [flow EXCEPT ![j] = [Idle EXCEPT !.entry = "http", !.token = token,
                                                !.stage = "auth"]]

\* get_authenticated_token(), injectors.py lines 44-54
HttpAuthenticate(j) ==
    /\ EntryOnly
    /\ flow[j].stage = "auth"
    /\ flow' = [flow EXCEPT ![j] =
                  IF flow[j].token = "good"
                  THEN [@ EXCEPT !.verified = TRUE, !.stage = "route"]
                  ELSE [@ EXCEPT !.stage = "done", !.status = 401]]

\* handler(), runpod_handler.py lines 287-302: a job that asks for neither
\* health nor openai goes to _handle_generate, whatever token it carries
RunpodArrive(j, token) ==
    /\ EntryOnly
    /\ flow[j].stage = "idle"
    /\ flow' = [flow EXCEPT ![j] = [Idle EXCEPT !.entry = "runpod", !.token = token,
                                                !.stage = "route"]]

\* the route consults the model cache: get_or_put (generate.py lines 79-85),
\* _get_or_load_model (runpod_handler.py line 132)
ConsultCache(j) ==
    /\ EntryOnly
    /\ flow[j].stage = "route"
    /\ flow' = [flow EXCEPT ![j] = [@ EXCEPT !.consulted = TRUE, !.stage = "loaded"]]

\* the language or the speaker is not one the model supports
\* (generate.py lines 90-111, runpod_handler.py lines 137-154)
Unsupported(j) ==
    /\ EntryOnly
    /\ flow[j].stage = "loaded"
    /\ flow' = [flow EXCEPT ![j] = [@ EXCEPT !.stage = "done", !.status = 400]]

\* how generate_voice reaches the backend: `async with self.lock: return
\* await asyncio.to_thread(run)` (qwen/clone.py lines 123-124, and the same
\* in custom.py and design.py), with the text of this one request;
\* InferenceBatcher is not referred to outside batcher.py
GenerationPath == "to_thread"

\* model.generate_voice(...) and the response
\* (generate.py lines 113-137, runpod_handler.py lines 157-178)
GenerateVoice(j) ==
    /\ EntryOnly
    /\ flow[j].stage = "loaded"
    /\ flow' = [flow EXCEPT ![j] = [@ EXCEPT !.generated = TRUE, !.via = GenerationPath,
                                             !.stage = "done",
                                             !.status = 200]]

\* the response is sent
Respond(j) ==
    /\ EntryOnly
    /\ flow[j].stage = "done"
    /\ flow' = [flow EXCEPT ![j] = Idle]

InitEntry == flow = [j \in Jobs |-> Idle]
EntryAtRest ==
    /\ InitEntry

NextEntry ==
    \/ \E j \in Jobs, token \in {"good", "bad"} : HttpArrive(j, token)
    \/ \E j \in Jobs : HttpAuthenticate(j)
    \/ \E j \in Jobs, token \in {"good", "bad"} : RunpodArrive(j, token)
    \/ \E j \in Jobs : ConsultCache(j)
    \/ \E j \in Jobs : Unsupported(j)
    \/ \E j \in Jobs : GenerateVoice(j)
    \/ \E j \in Jobs : Respond(j)

\* C27: at every entry point that serves generation, the model cache is
\* consulted and generation is started for a request only after
\* verify_token has accepted its token; a request whose token verify_token
\* refuses consults no cache and generates nothing.
C27_VerifyBeforeGeneration ==
    \A j \in Jobs :
        /\ (flow[j].consulted \/ flow[j].generated) => flow[j].verified
        /\ flow[j].token = "bad" => (~flow[j].consulted /\ ~flow[j].generated)

\* C33: a request handled by an entry point reaches the model backend only
\* through InferenceBatcher.submit: no generation goes to the backend
\* directly.
C33_OnlyThroughBatcher ==
    \A j \in Jobs : flow[j].generated => flow[j].via = "submit"

\* The batcher with the other two subsystems at rest.
BatcherRun == InitBatcher /\ CacheAtRest /\ TokensAtRest /\ EntryAtRest /\ LoadAtRest
SpecBatcher == BatcherRun /\ [][NextBatcher]_vars

SpecBatcherFair == SpecBatcher /\ BatcherFairness

\* The cache with the other two subsystems at rest.
CacheRun == InitCache /\ BatcherAtRest /\ TokensAtRest /\ EntryAtRest /\ LoadAtRest
SpecCache == CacheRun /\ [][NextCache]_vars

\* The token store with the other two subsystems at rest.
TokenRun == InitToken /\ BatcherAtRest /\ CacheAtRest /\ EntryAtRest /\ LoadAtRest
SpecToken == TokenRun /\ [][NextToken]_vars

\* The entry points with the three subsystems at rest.
EntryRun == InitEntry /\ BatcherAtRest /\ CacheAtRest /\ TokensAtRest /\ LoadAtRest
SpecEntry == EntryRun /\ [][NextEntry]_vars

\* _get_or_load_model calls on a new cache, the other subsystems at rest.
LoadRun == InitLoad /\ InitCache /\ BatcherAtRest /\ TokensAtRest /\ EntryAtRest
SpecLoad == LoadRun /\ [][NextLoad]_vars
====
